---- MODULE Spec2Model ----
(***************************************************************************)
(* A model of django_deployer's deploy.py: the stage ledger (stage.json),  *)
(* the stage wrapper (update_stage), the fail-fast wrapper                 *)
(* (raise_for_deployment), the command executor (run_command) and the      *)
(* fixed pipeline of main.  One behaviour is a sequence of invocations of  *)
(* the command, one process at a time, against one root path.              *)
(***************************************************************************)
EXTENDS Integers, Sequences, FiniteSets, TLC

\* Number of invocations of the command in one behaviour.
MaxRuns == 2

\* Project names given on the command line (--project-name).
Targets == {"site", "blog"}

\* JSON values found under a stage name in stage.json.
JsonTrue == "true"
JsonFalse == "false"
JsonText == "text"

(***************************************************************************)
(* The pipeline of main, in call order.  staged: decorated with            *)
(* @update_stage(name); guarded: decorated with @raise_for_deployment();   *)
(* gate: the command-line toggle the call is under.                        *)
(***************************************************************************)
Pipeline ==
  << [name |-> "update_system", staged |-> TRUE, guarded |-> TRUE, gate |-> "none"],
     [name |-> "install_apt_packages", staged |-> TRUE, guarded |-> TRUE, gate |-> "none"],
     [name |-> "install_python_packages", staged |-> TRUE, guarded |-> TRUE, gate |-> "none"],
     [name |-> "create_project_dir", staged |-> TRUE, guarded |-> TRUE, gate |-> "none"],
     [name |-> "clone_git_repo", staged |-> TRUE, guarded |-> TRUE, gate |-> "none"],
     [name |-> "pull_latest_changes", staged |-> FALSE, guarded |-> FALSE, gate |-> "none"],
     [name |-> "install_create_activate_virtualenv", staged |-> TRUE, guarded |-> TRUE, gate |-> "none"],
     [name |-> "install_project_dependencies", staged |-> TRUE, guarded |-> TRUE, gate |-> "none"],
     [name |-> "migrate_db", staged |-> TRUE, guarded |-> FALSE, gate |-> "migrate"],
     [name |-> "collect_static", staged |-> TRUE, guarded |-> TRUE, gate |-> "collectstatic"],
     [name |-> "install_gunicorn", staged |-> TRUE, guarded |-> TRUE, gate |-> "none"],
     [name |-> "get_gunicorn_path", staged |-> FALSE, guarded |-> FALSE, gate |-> "none"],
     [name |-> "write_gunicorn_config_files", staged |-> TRUE, guarded |-> TRUE, gate |-> "none"],
     [name |-> "setup_nginx", staged |-> TRUE, guarded |-> TRUE, gate |-> "none"],
     [name |-> "restart_services", staged |-> FALSE, guarded |-> FALSE, gate |-> "none"] >>

Steps == 1..Len(Pipeline)

StagedSteps == {i \in Steps : Pipeline[i].staged}

StageNames == {Pipeline[i].name : i \in StagedSteps}

\* A stage key of stage.json that no decorator of deploy.py writes.
ExtraStageKey == "note"

\* A project key of stage.json that is no target of this behaviour.
ExtraProjectKey == "other"

\* The order json.dump writes keys in (a dict's own order; equality of
\* documents does not depend on it).
ProjectKeyOrder == <<"site", "blog", "other">>

StageKeyOrder == [i \in 1..(Len(Pipeline) + 1) |->
                    IF i <= Len(Pipeline) THEN Pipeline[i].name ELSE ExtraStageKey]

(***************************************************************************)
(* Documents.  In memory a document is a dict: project key -> (stage key   *)
(* -> JSON value), here a function of functions.  On disk it is JSON text, *)
(* here a sequence of <<key, <<stage key, value>>...>> members, which may  *)
(* repeat a key when the file was edited by hand.                          *)
(***************************************************************************)
EmptyDict == <<>>

\* d[k] = v on a dict.
DictSet(d, k, v) == [x \in (DOMAIN d) \cup {k} |-> IF x = k THEN v ELSE d[x]]

\* d.setdefault(k, {}) as the dict it leaves behind.
SetDefault(d, k) == IF k \in DOMAIN d THEN d ELSE DictSet(d, k, EmptyDict)

\* Python truthiness of d.get(k).
Truthy(v) == v \in {JsonTrue, JsonText}

DictGetTruthy(d, k) == k \in DOMAIN d /\ Truthy(d[k])

\* json.load of an object: members in file order, a repeated key keeps the last.
RECURSIVE ParseMembers(_, _)
ParseMembers(members, acc) ==
  IF members = <<>> THEN acc
  ELSE ParseMembers(Tail(members), DictSet(acc, Head(members)[1], Head(members)[2]))

ParseJson(text) ==
  ParseMembers([i \in 1..Len(text) |-> <<text[i][1], ParseMembers(text[i][2], EmptyDict)>>],
               EmptyDict)

\* json.dump of a dict: one member per key.
RECURSIVE DumpMembers(_, _, _)
DumpMembers(d, order, i) ==
  IF i > Len(order) THEN <<>>
  ELSE IF order[i] \in DOMAIN d
       THEN <<<<order[i], d[order[i]]>>>> \o DumpMembers(d, order, i + 1)
       ELSE DumpMembers(d, order, i + 1)

DumpJson(doc) ==
  LET outer == DumpMembers(doc, ProjectKeyOrder, 1)
  IN [i \in 1..Len(outer) |-> <<outer[i][1], DumpMembers(outer[i][2], StageKeyOrder, 1)>>]

(***************************************************************************)
(* The command executor.  returncode is the exit status of the spawned     *)
(* program.  The result: spawns, the argv of every subprocess.run the call *)
(* makes, in order; raised, whether DeploymentException is raised; value,  *)
(* what the call returns when it returns, as a sequence of at most one     *)
(* exit status (the function has no return statement: it returns None).    *)
(***************************************************************************)
PyNone == <<>>

\* Faulty variant of run_command: an argv that already starts with sudo is not
\* prefixed again.
run_command_SudoOnce(command, use_sudo, raise_on_error, returncode) ==
  [spawns |-> << IF use_sudo /\ (command = <<>> \/ command[1] # "sudo")
                 THEN <<"sudo">> \o command ELSE command >>,
   raised |-> (returncode # 0 /\ raise_on_error),
   value |-> PyNone]

run_command(command, use_sudo, raise_on_error, returncode) ==
  [spawns |-> << IF use_sudo THEN <<"sudo">> \o command ELSE command >>,
   raised |-> (returncode # 0 /\ raise_on_error),
   value |-> PyNone]

\* Exit statuses an external program is taken to end with.
ReturnCodes == {0, 1}

(***************************************************************************)
(* Stage bodies as straight-line scripts.  Each instruction is one call    *)
(* the body makes:                                                         *)
(*   run_command   run_command(argv, use_sudo, raise_on_error)             *)
(*   check_output  subprocess.check_output(argv)                           *)
(*   file          a file-system call (mkdir, chdir, open, write)          *)
(*   activate      activate_venv(venv_path)                                *)
(*   return_if     an early "return" taken when its condition holds        *)
(* onfail is what a failure of the call becomes inside the body:           *)
(* "deploy" (DeploymentException), "defect" (any other exception) or       *)
(* "ignore" (caught and dropped).                                          *)
(***************************************************************************)
Cmd(argv, use_sudo, raise_on_error) ==
  [op |-> "run_command", argv |-> argv, use_sudo |-> use_sudo,
   raise_on_error |-> raise_on_error, onfail |-> "deploy"]

CheckOutput(argv, onfail) ==
  [op |-> "check_output", argv |-> argv, use_sudo |-> FALSE,
   raise_on_error |-> TRUE, onfail |-> onfail]

FileOp(what, onfail) ==
  [op |-> "file", argv |-> <<what>>, use_sudo |-> FALSE,
   raise_on_error |-> TRUE, onfail |-> onfail]

Activate ==
  [op |-> "activate", argv |-> <<"sh", "-c", ". <venv>/bin/activate; env">>,
   use_sudo |-> FALSE, raise_on_error |-> TRUE, onfail |-> "deploy"]

ReturnIf(what) ==
  [op |-> "return_if", argv |-> <<what>>, use_sudo |-> FALSE,
   raise_on_error |-> FALSE, onfail |-> "ignore"]

AptPackages ==
  <<"python3-pip", "python3-dev", "libpq-dev", "nginx", "curl", "postgresql",
    "postgresql-contrib", "zsh", "git", "systemd", "python3-venv">>

\* The scripts a step's body may follow (more than one where an input of the
\* invocation decides: setup_nginx with and without --domain-name).
BodyScripts(i, use_sudo) ==
  CASE Pipeline[i].name = "update_system" ->
         { << Cmd(<<"sudo", "apt", "update", "-y">>, use_sudo, TRUE) >> }
    [] Pipeline[i].name = "install_apt_packages" ->
         { << Cmd(<<"sudo", "apt", "install", "-y">> \o AptPackages, use_sudo, TRUE) >> }
    [] Pipeline[i].name = "install_python_packages" ->
         { << Cmd(<<"pip3", "install", "pyperclip">>, FALSE, TRUE) >> }
    [] Pipeline[i].name = "create_project_dir" ->
         { << FileOp("mkdir <project_dir>", "defect") >> }
    [] Pipeline[i].name = "clone_git_repo" ->
         { << ReturnIf("destination_dir is not empty"),
              Cmd(<<"git", "clone", "-b", "<branch>", "<repo_url>", "<project_dir>">>, FALSE, TRUE) >> }
    [] Pipeline[i].name = "pull_latest_changes" ->
         { << FileOp("chdir <project_dir>", "defect"),
              Cmd(<<"git", "pull">>, FALSE, TRUE),
              FileOp("chdir <current_dir>", "defect") >> }
    [] Pipeline[i].name = "install_create_activate_virtualenv" ->
         { << Cmd(<<"pip3", "install", "--upgrade", "pip">>, FALSE, TRUE),
              Cmd(<<"pip3", "install", "virtualenv">>, FALSE, TRUE),
              Cmd(<<"python3", "-m", "venv", "<venv>">>, FALSE, TRUE),
              Activate >> }
    [] Pipeline[i].name = "install_project_dependencies" ->
         { << Activate,
              ReturnIf("no requirements file"),
              Cmd(<<"pip3", "install", "-r", "<requirements>">>, FALSE, TRUE) >> }
    [] Pipeline[i].name = "migrate_db" ->
         { << Activate,
              Cmd(<<"python3", "<project_dir>/manage.py", "migrate">>, FALSE, TRUE) >> }
    [] Pipeline[i].name = "collect_static" ->
         { << Activate,
              Cmd(<<"python3", "<project_dir>/manage.py", "collectstatic", "--no-input">>, FALSE, TRUE) >> }
    [] Pipeline[i].name = "install_gunicorn" ->
         { << Activate,
              Cmd(<<"pip3", "install", "gunicorn">>, FALSE, TRUE) >> }
    [] Pipeline[i].name = "get_gunicorn_path" ->
         { << Activate,
              CheckOutput(<<"which", "gunicorn">>, "defect") >> }
    [] Pipeline[i].name = "write_gunicorn_config_files" ->
         { << FileOp("write gunicorn.socket", "deploy"),
              FileOp("write gunicorn.service", "deploy") >> }
    [] Pipeline[i].name = "setup_nginx" ->
         { << FileOp("write nginx config", "deploy"),
              Cmd(<<"ln", "-s", "<nginx_config>", "/etc/nginx/sites-enabled">>, TRUE, FALSE) >>,
           << CheckOutput(<<"curl", "https://ipv4.icanhazip.com/">>, "ignore"),
              FileOp("write nginx config", "deploy"),
              Cmd(<<"ln", "-s", "<nginx_config>", "/etc/nginx/sites-enabled">>, TRUE, FALSE) >> }
    [] OTHER ->
         { << Cmd(<<"systemctl", "daemon-reload">>, TRUE, TRUE),
              Cmd(<<"systemctl", "restart", "gunicorn">>, TRUE, TRUE),
              Cmd(<<"systemctl", "restart", "nginx">>, TRUE, TRUE) >> }

(***************************************************************************)
(* Running a body.  The process state a body touches: log (the argv of     *)
(* every program the call has spawned so far), venv_active (the global     *)
(* VENV_ACTIVE) and virtual_env ("VIRTUAL_ENV" in os.environ).  A body     *)
(* ends with res:                                                          *)
(*   "ok"      it returned                                                 *)
(*   "deploy"  it raised DeploymentException                               *)
(*   "exit"    exit(1) was called inside it (activate_venv's own           *)
(*             raise_for_deployment)                                       *)
(*   "defect"  it raised another exception                                 *)
(*   "killed"  the process died while a spawned program was running        *)
(***************************************************************************)
End(acc, res) ==
  [res |-> res, log |-> acc.log, venv_active |-> acc.venv_active,
   virtual_env |-> acc.virtual_env]

\* Faulty variant of activate_venv: the test of VENV_ACTIVE is missing, so every
\* call sources the script.
activate_venv_NoFlagTest(acc) ==
  LET spawned == [acc EXCEPT !.log = Append(@, Activate.argv)]
  IN  { [cont |-> TRUE, res |-> "ok",
         acc |-> [spawned EXCEPT !.virtual_env = TRUE, !.venv_active = TRUE]] }
      \cup
      { IF acc.virtual_env
        THEN [cont |-> TRUE, res |-> "ok", acc |-> [spawned EXCEPT !.venv_active = TRUE]]
        ELSE [cont |-> FALSE, res |-> "exit", acc |-> spawned] }
      \cup
      { [cont |-> FALSE, res |-> "defect", acc |-> spawned] }

\* activate_venv, decorated with raise_for_deployment: the ways one call ends.
\* cont marks the calls that return to the body.
activate_venv(acc) ==
  IF acc.venv_active
  THEN { [cont |-> TRUE, acc |-> acc, res |-> "ok"] }
  ELSE LET spawned == [acc EXCEPT !.log = Append(@, Activate.argv)]
       IN  \* the script exported VIRTUAL_ENV
           { [cont |-> TRUE, res |-> "ok",
              acc |-> [spawned EXCEPT !.virtual_env = TRUE, !.venv_active = TRUE]] }
           \cup
           \* the script exported nothing new
           { IF acc.virtual_env
             THEN [cont |-> TRUE, res |-> "ok",
                   acc |-> [spawned EXCEPT !.venv_active = TRUE]]
             ELSE [cont |-> FALSE, res |-> "exit", acc |-> spawned] }
           \cup
           \* a line of the env output without "=": dict() raises ValueError
           { [cont |-> FALSE, res |-> "defect", acc |-> spawned] }

RECURSIVE Exec(_, _, _)
Exec(script, i, acc) ==
  IF i > Len(script) THEN { End(acc, "ok") }
  ELSE
    LET ins == script[i] IN
    CASE ins.op = "run_command" ->
           UNION { LET r == run_command(ins.argv, ins.use_sudo, ins.raise_on_error, rc)
                       acc1 == [acc EXCEPT !.log = @ \o r.spawns]
                   IN  IF r.raised THEN { End(acc1, "deploy") }
                       ELSE Exec(script, i + 1, acc1) \cup { End(acc1, "killed") }
                   : rc \in ReturnCodes }
      [] ins.op = "check_output" ->
           LET acc1 == [acc EXCEPT !.log = Append(@, ins.argv)]
           IN  Exec(script, i + 1, acc1)
               \cup (IF ins.onfail = "ignore" THEN {} ELSE { End(acc1, ins.onfail) })
      [] ins.op = "file" ->
           Exec(script, i + 1, acc) \cup { End(acc, ins.onfail) }
      [] ins.op = "activate" ->
           UNION { IF a.cont THEN Exec(script, i + 1, a.acc) ELSE { End(a.acc, a.res) }
                   : a \in activate_venv(acc) }
      [] OTHER ->
           Exec(script, i + 1, acc) \cup { End(acc, "ok") }

\* Every way the body of step i can end, started in process state acc.
BodyOutcomes(i, use_sudo, acc) ==
  UNION { Exec(script, 1, acc) : script \in BodyScripts(i, use_sudo) }

(***************************************************************************)
(* The ledger file <root>/.deployment_artifacts/stage.json.                *)
(*   kind "absent"   no such file                                          *)
(*   kind "garbage"  a file json.load rejects (empty, truncated, not JSON) *)
(*   kind "json"     a file json.load accepts; text holds its members      *)
(***************************************************************************)
AbsentFile == [kind |-> "absent", text |-> <<>>]

GarbageFile == [kind |-> "garbage", text |-> <<>>]

JsonFile(text) == [kind |-> "json", text |-> text]

\* The document a fresh json.load of the file gives; nothing for a file
\* that cannot be loaded.
Persisted(file) == IF file.kind = "json" THEN ParseJson(file.text) ELSE EmptyDict

\* project_stages.get(stage_name) is truthy in document doc.
IsComplete(doc, project, stage_name) ==
  project \in DOMAIN doc /\ DictGetTruthy(doc[project], stage_name)

\* Faulty variant of load_artifacts: the loaded document is bound to a local name
\* (no "global previous_stages"), so the global stays as it was.
load_artifacts_LocalOnly(dir_exists, writable, file, previous) ==
  IF file.kind = "absent"
  THEN IF ~dir_exists \/ ~writable
       THEN { [res |-> "defect", file |-> file, previous_stages |-> previous] }
       ELSE { [res |-> "ok", file |-> JsonFile(<<>>), previous_stages |-> previous] }
  ELSE { [res |-> "ok", file |-> file, previous_stages |-> previous] }

(***************************************************************************)
(* load_artifacts(root_path).  previous is the module-level                *)
(* previous_stages ({} in a new process).  The results: the file and the   *)
(* global previous_stages it leaves, and how the call ends ("ok": it       *)
(* returns; "defect": touch or write_text raises; "killed": the process    *)
(* dies between touch and write_text).                                     *)
(***************************************************************************)
load_artifacts(dir_exists, writable, file, previous) ==
  LET read(f) == IF f.kind = "json" THEN ParseJson(f.text) ELSE previous
  IN  IF file.kind = "absent"
      THEN IF ~dir_exists \/ ~writable
           THEN { [res |-> "defect", file |-> file, previous_stages |-> previous] }
           ELSE { [res |-> "ok", file |-> JsonFile(<<>>),
                   previous_stages |-> read(JsonFile(<<>>))],
                  [res |-> "killed", file |-> GarbageFile, previous_stages |-> previous] }
      ELSE { [res |-> "ok", file |-> file, previous_stages |-> read(file)] }

(***************************************************************************)
(* update_stage(stage_name).                                               *)
(***************************************************************************)
\* Faulty variant of StageSkips: the stage is looked up in previous_stages itself,
\* not in the project's record.
StageSkips_TopLevelLookup(previous, project, stage_name) ==
  DictGetTruthy(previous, stage_name)

\* wrapper, lines 97-98: the skip test (after setdefault).
StageSkips(previous, project, stage_name) ==
  DictGetTruthy(SetDefault(previous, project)[project], stage_name)

\* Faulty variant of MarkComplete: the project's record is replaced, not updated.
MarkComplete_Overwrite(previous, project, stage_name) ==
  DictSet(previous, project, DictSet(EmptyDict, stage_name, JsonTrue))

\* Faulty variant of MarkComplete: the stage is set in every project's record.
MarkComplete_AllProjects(previous, project, stage_name) ==
  LET d == SetDefault(previous, project)
  IN  [k \in DOMAIN d |-> DictSet(d[k], stage_name, JsonTrue)]

\* update_stage_file, lines 90-91: the document after the stage is set.
MarkComplete(previous, project, stage_name) ==
  LET d == SetDefault(previous, project)
  IN  DictSet(d, project, DictSet(d[project], stage_name, JsonTrue))

\* Faulty variant of WriteStageFile: the dump goes to another path (the module-level
\* stage_file), so the root's stage.json stays as it was.
WriteStageFile_OtherPath(doc, file, writable) ==
  { [res |-> "ok", file |-> file] }

\* update_stage_file, lines 92-93: open(stage_file, "w") and json.dump of the
\* whole document.  "defect": open raises; "killed": the process dies after
\* open has truncated the file and before the dump is complete.
WriteStageFile(doc, file, writable) ==
  IF ~writable
  THEN { [res |-> "defect", file |-> file] }
  ELSE { [res |-> "ok", file |-> JsonFile(DumpJson(doc))],
         [res |-> "killed", file |-> GarbageFile] }

\* The process state a call of a pipeline function works on.
ProcState(previous, file, log, venv_active, virtual_env) ==
  [previous_stages |-> previous, file |-> file, log |-> log,
   venv_active |-> venv_active, virtual_env |-> virtual_env]

\* A call's result: how it ends (res), the state it leaves, whether the body
\* was invoked, how the body ended (body; "none" when it was not invoked) and
\* whether the file was written.
CallResult(res, st, b, body, wrote) ==
  [res |-> res, previous_stages |-> st.previous_stages, file |-> st.file,
   log |-> b.log, venv_active |-> b.venv_active, virtual_env |-> b.virtual_env,
   invoked |-> (body # "none"), returned |-> (body = "ok"), body |-> body,
   wrote |-> wrote]

\* An undecorated body called from main.
PlainCall(i, use_sudo, st) ==
  { CallResult(b.res, st, b, b.res, FALSE)
    : b \in BodyOutcomes(i, use_sudo, st) }

\* Faulty variant of update_stage: the stage is written in a "finally", also when
\* the body raised.
update_stage_Finally(i, project, use_sudo, writable, st) ==
  LET stage_name == Pipeline[i].name
      touched == [st EXCEPT !.previous_stages = SetDefault(@, project)]
      doc == MarkComplete(st.previous_stages, project, stage_name)
  IN  IF StageSkips(st.previous_stages, project, stage_name)
      THEN { CallResult("ok", touched, st, "none", FALSE) }
      ELSE UNION {
             IF b.res = "killed"
             THEN { CallResult(b.res, touched, b, b.res, FALSE) }
             ELSE { CallResult(IF b.res = "ok" THEN w.res ELSE b.res,
                               [touched EXCEPT !.previous_stages = doc, !.file = w.file],
                               b, b.res, w.res = "ok")
                    : w \in WriteStageFile(doc, st.file, writable) }
             : b \in BodyOutcomes(i, use_sudo, st) }

\* Faulty variant of update_stage: the stage is set in memory before the body runs.
update_stage_MarkFirst(i, project, use_sudo, writable, st) ==
  LET stage_name == Pipeline[i].name
      touched == [st EXCEPT !.previous_stages = SetDefault(@, project)]
      doc == MarkComplete(st.previous_stages, project, stage_name)
      marked == [touched EXCEPT !.previous_stages = doc]
  IN  IF StageSkips(st.previous_stages, project, stage_name)
      THEN { CallResult("ok", touched, st, "none", FALSE) }
      ELSE UNION {
             IF b.res # "ok"
             THEN { CallResult(b.res, marked, b, b.res, FALSE) }
             ELSE { CallResult(w.res, [marked EXCEPT !.file = w.file], b, "ok", w.res = "ok")
                    : w \in WriteStageFile(doc, st.file, writable) }
             : b \in BodyOutcomes(i, use_sudo, st) }

\* The wrapper update_stage puts around the body of step i.
update_stage(i, project, use_sudo, writable, st) ==
  LET stage_name == Pipeline[i].name
      touched == [st EXCEPT !.previous_stages = SetDefault(@, project)]
  IN  IF StageSkips(st.previous_stages, project, stage_name)
      THEN { CallResult("ok", touched, st, "none", FALSE) }
      ELSE UNION {
             IF b.res # "ok"
             THEN { CallResult(b.res, touched, b, b.res, FALSE) }
             ELSE LET doc == MarkComplete(st.previous_stages, project, stage_name)
                  IN  { CallResult(w.res,
                                   [touched EXCEPT !.previous_stages = doc, !.file = w.file],
                                   b, "ok", w.res = "ok")
                        : w \in WriteStageFile(doc, st.file, writable) }
             : b \in BodyOutcomes(i, use_sudo, st) }

\* Faulty variant of raise_for_deployment: "except Exception", so every
\* exception of the wrapped call is logged and becomes exit(1).
raise_for_deployment_CatchAll(res) == IF res \in {"deploy", "defect"} THEN "exit" ELSE res

\* Faulty variant of raise_for_deployment: the exception is logged and the exit(1)
\* is missing, so the wrapped call returns.
raise_for_deployment_NoExit(res) == IF res = "deploy" THEN "ok" ELSE res

(***************************************************************************)
(* raise_for_deployment(): a DeploymentException of the wrapped call is    *)
(* logged and becomes exit(1); everything else passes through.             *)
(***************************************************************************)
raise_for_deployment(res) == IF res = "deploy" THEN "exit" ELSE res

\* The call main makes at step i, decorators applied as the source stacks them.
Call(i, project, use_sudo, writable, st) ==
  LET inner == IF Pipeline[i].staged
               THEN update_stage(i, project, use_sudo, writable, st)
               ELSE PlainCall(i, use_sudo, st)
  IN  IF Pipeline[i].guarded
      THEN { [r EXCEPT !.res = raise_for_deployment(r.res)] : r \in inner }
      ELSE inner

\* How the process ends when a call ends with res other than "ok":
\* exit(1), an uncaught exception (traceback), or a kill.
ExitOf(res) ==
  CASE res = "exit" -> "exit1"
    [] res = "killed" -> "killed"
    [] OTHER -> "traceback"

\* The exit status the shell sees.
ExitCode(e) ==
  CASE e = "ok" -> 0
    [] e = "killed" -> 137
    [] OTHER -> 1

(***************************************************************************)
(* setup_db.py.  A line of text is a sequence of words; the words " ", "#" *)
(* and "=" stand for the characters, any other word for a run of other     *)
(* characters.  An environment maps names (lines) to values (lines).  An   *)
(* Optional[str] is PyNone or <<text>>.                                    *)
(***************************************************************************)
MaxFileLines == 2

EnvLines ==
  { <<"DB_NAME", "=", "shop">>,
    <<" ", "DB_USER", " ", "=", " ", "web", " ">>,
    <<"DB_PASSWORD", "=", "pw", "=", "1">>,
    <<"#", "DB_NAME", "=", "old">>,
    <<" ">>,
    <<"DB_NAME">> }

NoEnvFile == [kind |-> "absent", lines |-> <<>>]

EnvFiles ==
  {NoEnvFile} \cup
  { [kind |-> "file", lines |-> ls] :
      ls \in UNION { [1..n -> EnvLines] : n \in 0..MaxFileLines } }

NoEnviron == [k \in {} |-> <<>>]

\* The environments setup_db.py is started in: DB_NAME exported or not, a
\* virtualenv activated or not.
InheritedEnvirons ==
  { [k \in ks |-> IF k = <<"DB_NAME">> THEN <<"legacy">> ELSE <<"venv">>] :
      ks \in SUBSET {<<"DB_NAME">>, <<"VIRTUAL_ENV">>} }

\* str.strip()
RECURSIVE Strip(_)
Strip(line) ==
  IF line = <<>> THEN <<>>
  ELSE IF Head(line) = " " THEN Strip(Tail(line))
  ELSE IF line[Len(line)] = " " THEN Strip(SubSeq(line, 1, Len(line) - 1))
  ELSE line

\* Where the first "=" of the line is; 0 when it has none.
FirstEquals(line) ==
  IF \E i \in 1..Len(line) : line[i] = "="
  THEN CHOOSE i \in 1..Len(line) :
         line[i] = "=" /\ \A j \in 1..(i - 1) : line[j] # "="
  ELSE 0

\* os.environ[key] = value
EnvironSet(env, key, value) ==
  [k \in DOMAIN env \cup {key} |-> IF k = key THEN value ELSE env[k]]

\* os.environ.get(key)
EnvironGet(env, key) == IF key \in DOMAIN env THEN <<env[key]>> ELSE PyNone

(***************************************************************************)
(* load_env_from_line: blank lines and comments are passed over; a line    *)
(* without "=" raises ValueError at the unpacking of split("=", 1).        *)
(***************************************************************************)
load_env_from_line(env, line) ==
  LET l == Strip(line)
      eq == FirstEquals(l)
  IN  IF l = <<>> \/ l[1] = "#" THEN [environ |-> env, res |-> "ok"]
      ELSE IF eq = 0 THEN [environ |-> env, res |-> "defect"]
      ELSE [environ |-> EnvironSet(env, Strip(SubSeq(l, 1, eq - 1)),
                                        Strip(SubSeq(l, eq + 1, Len(l)))),
            res |-> "ok"]

\* load_dotenv_from_file: the lines in order, up to the first that raises.
RECURSIVE load_dotenv_from_file(_, _)
load_dotenv_from_file(env, lines) ==
  IF lines = <<>> THEN [environ |-> env, res |-> "ok"]
  ELSE LET r == load_env_from_line(env, Head(lines))
       IN  IF r.res = "ok" THEN load_dotenv_from_file(r.environ, Tail(lines)) ELSE r

\* What an f-string makes of an Optional[str].
Format(value) == IF value = PyNone THEN <<"None">> ELSE value[1]

\* The text create_postgres_resources builds: one sequence of parts a statement.
SqlText(db_name, db_user, db_password) ==
  << <<"CREATE DATABASE ", Format(db_name), ";">>,
     <<"CREATE USER ", Format(db_user), " WITH PASSWORD '", Format(db_password), "';">>,
     <<"ALTER ROLE ", Format(db_user), " SET client_encoding TO 'utf8';">>,
     <<"ALTER ROLE ", Format(db_user),
       " SET default_transaction_isolation TO 'read committed';">>,
     <<"ALTER ROLE ", Format(db_user), " SET timezone TO 'Asia/Kolkata';">>,
     <<"GRANT ALL PRIVILEGES ON DATABASE ", Format(db_name), " TO ", Format(db_user), ";">>,
     <<"ALTER ROLE ", Format(db_user), " SUPERUSER;">> >>

\* run_command of setup_db.py.
setup_run_command(command, use_sudo, raise_on_error, returncode) ==
  [spawns |-> << IF use_sudo THEN <<"sudo">> \o command ELSE command >>,
   res |-> IF returncode # 0 /\ raise_on_error THEN "deploy" ELSE "ok"]

\* raise_for_deployment of setup_db.py: a DeploymentException of the
\* wrapped call is logged and becomes exit(1).
setup_raise_for_deployment(res) == IF res = "deploy" THEN "exit" ELSE res

\* The handlers of main's try: a DeploymentException is logged and main
\* returns; any other Exception is logged and raised again; SystemExit is
\* no Exception and passes.  The value is the exit status of the command.
SetupExitStatus(res) == IF res \in {"ok", "deploy"} THEN 0 ELSE 1

SetupSteps == <<"create_postgres_resources", "virtualenv", "migrate_db", "restart_services">>

IdleSetup ==
  [pc |-> "idle", execute_sql |-> FALSE, migrate |-> FALSE,
   db_name |-> PyNone, db_user |-> PyNone, db_password |-> PyNone,
   db_host |-> PyNone, db_port |-> PyNone,
   line |-> <<>>, shown |-> "none", spawned |-> <<>>,
   done |-> {}, failed |-> "none", res |-> "ok", status |-> 0]

(***************************************************************************)
(* State.                                                                  *)
(***************************************************************************)
VARIABLES
  \* the root's file system
  artifacts_dir_exists, \* <root>/.deployment_artifacts is a directory
  writable,             \* the user may create and write files in it
  stage_file,           \* stage.json
  \* the running (or last) process
  phase,                \* "idle", "load", "run", "exited"
  step,                 \* the call of main the process is at
  exit,                 \* "none" while running; "ok", "exit1", "traceback", "killed"
  PROJECT_NAME, sudo, migrate, collectstatic,
  previous_stages, VENV_ACTIVE, virtual_env,
  log,                  \* argv of every program the last call of main spawned
  \* history
  runs,                 \* invocations started
  calls,                \* this invocation: times each step's body was invoked
  writes,               \* this invocation: times each step's stage was written
  loaded,               \* this invocation: previous_stages as load_artifacts left it
  loadedFrom,           \* this invocation: kind of stage.json when load_artifacts began
  raised,               \* this invocation: the call that did not return
  bodyFailed,           \* this invocation: the first body that did not return
  lastSpawn,            \* this invocation: the last step that spawned a program
  returns,              \* this invocation: times each step's body returned
  lastFailed,           \* the last invocation: its project, the step whose body failed,
                        \* and whether it loaded no stage of its project (fresh)
  failedBefore,         \* this invocation: lastFailed of the invocation before it when
                        \* that one was for the same project (else step 0)
  \* one call of run_command on its own
  req,                  \* its arguments
  ran,                  \* the program's exit status and what the call did (NoRun before)
  \* two processes at once on one root
  procs,                \* each process: its project, position and globals
  recorded,             \* <<project, stage>> of every write of a stage that completed
  \* setup_db.py
  env_file,             \* the file --env-file names: absent, or its lines
  environ,              \* os.environ of the setup_db process
  setup                 \* the setup_db process: options, locals of main, what it did

fsVars == <<artifacts_dir_exists, writable, stage_file>>

argVars == <<PROJECT_NAME, sudo, migrate, collectstatic>>

procVars == <<phase, step, exit, previous_stages, VENV_ACTIVE, virtual_env, log>>

histVars == <<runs, calls, returns, writes, loaded, loadedFrom, raised, bodyFailed, lastSpawn,
              lastFailed, failedBefore>>

execVars == <<req, ran>>

concVars == <<procs, recorded>>

dbVars == <<env_file, environ, setup>>

vars == <<fsVars, argVars, procVars, histVars, execVars, concVars, dbVars>>

\* setup_db.py is not running.
NoSetup == env_file = NoEnvFile /\ environ = NoEnviron /\ setup = IdleSetup

NoCalls == [i \in Steps |-> 0]

NotRaised == [step |-> 0, res |-> "none"]

NoFailure == [project |-> "None", step |-> 0, fresh |-> FALSE]

NoRequest == [command |-> <<>>, use_sudo |-> FALSE, raise_on_error |-> FALSE]

NoRun == [returncode |-> 0, spawns |-> <<>>, raised |-> FALSE, value |-> PyNone]

NoProcs == <<>>

\* A stage.json edited by hand: a repeated project key, a false entry, an
\* unknown stage key, a non-boolean entry, another project's record and an
\* unknown project key.
HandEdited ==
  << <<"site", << <<"update_system", JsonTrue>> >> >>,
     <<"site", << <<"update_system", JsonTrue>>,
                  <<"install_apt_packages", JsonFalse>>,
                  <<ExtraStageKey, JsonText>>,
                  <<"install_python_packages", JsonText>> >> >>,
     <<"blog", << <<"update_system", JsonTrue>> >> >>,
     <<ExtraProjectKey, << <<ExtraStageKey, JsonText>> >> >> >>

\* stage.json as a behaviour may find it: missing, unreadable, empty, or
\* edited by hand.
InitFiles == { AbsentFile, GarbageFile, JsonFile(<<>>), JsonFile(HandEdited) }

\* No process yet, and nothing has run.
NoProcess ==
  /\ phase = "idle" /\ step = 0 /\ exit = "none"
  /\ PROJECT_NAME = "None" /\ sudo = TRUE /\ migrate = TRUE /\ collectstatic = TRUE
  /\ previous_stages = EmptyDict /\ VENV_ACTIVE = FALSE /\ virtual_env = FALSE
  /\ log = <<>>
  /\ runs = 0 /\ calls = NoCalls /\ writes = NoCalls
  /\ loaded = EmptyDict /\ loadedFrom = "none"
  /\ raised = NotRaised /\ bodyFailed = NotRaised /\ lastSpawn = 0
  /\ returns = NoCalls
  /\ lastFailed = NoFailure /\ failedBefore = NoFailure

\* The directory is there when the root is the user's home (the module-level
\* mkdir of lines 25-29 makes it) or an earlier tool made it; a file needs
\* its directory.
Init ==
  /\ stage_file \in InitFiles
  /\ artifacts_dir_exists \in BOOLEAN
  /\ writable \in BOOLEAN
  /\ stage_file.kind # "absent" => artifacts_dir_exists
  /\ ~writable => artifacts_dir_exists
  /\ NoProcess
  /\ req = NoRequest /\ ran = NoRun
  /\ procs = NoProcs /\ recorded = {}
  /\ NoSetup

(***************************************************************************)
(* A new process: the module-level assignments (lines 16-27) and main up   *)
(* to the call of load_artifacts (lines 474-476).                          *)
(***************************************************************************)
Invoke(project, s, m, c, v) ==
  /\ phase \in {"idle", "exited"}
  /\ PROJECT_NAME' = project /\ sudo' = s /\ migrate' = m /\ collectstatic' = c
  /\ virtual_env' = v
  /\ failedBefore' = IF lastFailed.project = project THEN lastFailed ELSE NoFailure
  /\ phase' = "load" /\ step' = 0 /\ exit' = "none"
  /\ previous_stages' = EmptyDict /\ VENV_ACTIVE' = FALSE /\ log' = <<>>
  /\ calls' = NoCalls /\ returns' = NoCalls /\ writes' = NoCalls
  /\ loaded' = EmptyDict /\ loadedFrom' = "none" /\ raised' = NotRaised
  /\ bodyFailed' = NotRaised /\ lastSpawn' = 0
  /\ lastFailed' = NoFailure
  /\ UNCHANGED <<dbVars, fsVars, execVars, concVars>>

\* The command is run, with any project and options, up to MaxRuns times.
Start ==
  /\ runs < MaxRuns
  /\ runs' = runs + 1
  /\ \E project \in Targets, s, m, c, v \in BOOLEAN : Invoke(project, s, m, c, v)

\* main, line 477.
LoadArtifacts ==
  /\ phase = "load"
  /\ \E r \in load_artifacts(artifacts_dir_exists, writable, stage_file, previous_stages) :
       /\ stage_file' = r.file
       /\ previous_stages' = r.previous_stages
       /\ loaded' = r.previous_stages
       /\ IF r.res = "ok"
          THEN phase' = "run" /\ step' = 1 /\ exit' = "none" /\ raised' = NotRaised
          ELSE /\ phase' = "exited" /\ step' = 0 /\ exit' = ExitOf(r.res)
               /\ raised' = [step |-> 0, res |-> r.res]
  /\ loadedFrom' = stage_file.kind
  /\ UNCHANGED <<dbVars, artifacts_dir_exists, writable, argVars, VENV_ACTIVE, virtual_env, log,
                 runs, calls, returns, writes, bodyFailed, lastSpawn, lastFailed,
                 failedBefore, execVars, concVars>>

\* Faulty variant of Enabled: main calls the stage without looking at its toggle.
Enabled_Always(i) == i \in Steps

\* The toggle a call of main is under is on.
Enabled(i) ==
  CASE Pipeline[i].gate = "migrate" -> migrate
    [] Pipeline[i].gate = "collectstatic" -> collectstatic
    [] OTHER -> TRUE

\* Faulty variant of Advance: after pull_latest_changes main calls it again.
Advance_Again(i) == IF Pipeline[i].name = "pull_latest_changes" THEN i ELSE i + 1

\* The position main is at after the call at position i returned or was
\* passed over: the statements of main run once, top to bottom.
Advance(i) == i + 1

\* main, lines 481-512: the call at position i of the pipeline.
Step(i) ==
  /\ phase = "run" /\ step = i
  /\ IF ~Enabled(i)
     THEN /\ step' = Advance(i)
          /\ UNCHANGED <<phase, exit, previous_stages, VENV_ACTIVE, virtual_env, log,
                         stage_file, calls, returns, writes, raised, bodyFailed,
                         lastSpawn, lastFailed>>
     ELSE \E r \in Call(i, PROJECT_NAME, sudo, writable,
                        ProcState(previous_stages, stage_file, <<>>, VENV_ACTIVE, virtual_env)) :
            /\ previous_stages' = r.previous_stages
            /\ stage_file' = r.file
            /\ log' = r.log
            /\ VENV_ACTIVE' = r.venv_active
            /\ virtual_env' = r.virtual_env
            /\ calls' = IF r.invoked THEN [calls EXCEPT ![i] = @ + 1] ELSE calls
            /\ writes' = IF r.wrote THEN [writes EXCEPT ![i] = @ + 1] ELSE writes
            /\ returns' = IF r.returned THEN [returns EXCEPT ![i] = @ + 1] ELSE returns
            /\ lastSpawn' = IF r.log # <<>> THEN i ELSE lastSpawn
            /\ IF r.invoked /\ ~r.returned /\ bodyFailed = NotRaised
               THEN /\ bodyFailed' = [step |-> i, res |-> r.body]
                    /\ lastFailed' = [project |-> PROJECT_NAME, step |-> i,
                                      fresh |-> ~\E n \in StageNames :
                                                  IsComplete(loaded, PROJECT_NAME, n)]
               ELSE UNCHANGED <<bodyFailed, lastFailed>>
            /\ IF r.res = "ok"
               THEN /\ step' = Advance(i)
                    /\ phase' = IF i = Len(Pipeline) THEN "exited" ELSE "run"
                    /\ exit' = IF i = Len(Pipeline) THEN "ok" ELSE "none"
                    /\ UNCHANGED raised
               ELSE /\ step' = i
                    /\ phase' = "exited"
                    /\ exit' = ExitOf(r.res)
                    /\ raised' = [step |-> i, res |-> r.res]
  /\ UNCHANGED <<dbVars, artifacts_dir_exists, writable, argVars, runs, loaded, loadedFrom,
                 failedBefore, execVars, concVars>>

update_system == Step(1)
install_apt_packages == Step(2)
install_python_packages == Step(3)
create_project_dir == Step(4)
clone_git_repo == Step(5)
pull_latest_changes == Step(6)
install_create_activate_virtualenv == Step(7)
install_project_dependencies == Step(8)
migrate_db == Step(9)
collect_static == Step(10)
install_gunicorn == Step(11)
get_gunicorn_path == Step(12)
write_gunicorn_config_files == Step(13)
setup_nginx == Step(14)
restart_services == Step(15)

Next ==
  \/ Start
  \/ LoadArtifacts
  \/ update_system
  \/ install_apt_packages
  \/ install_python_packages
  \/ create_project_dir
  \/ clone_git_repo
  \/ pull_latest_changes
  \/ install_create_activate_virtualenv
  \/ install_project_dependencies
  \/ migrate_db
  \/ collect_static
  \/ install_gunicorn
  \/ get_gunicorn_path
  \/ write_gunicorn_config_files
  \/ setup_nginx
  \/ restart_services

Spec == Init /\ [][Next]_vars

(***************************************************************************)
(* run_command on its own: one call, its arguments drawn from every argv   *)
(* of up to MaxArgs words and both values of each flag, the program ending *)
(* with any exit status of ReturnCodes.                                    *)
(***************************************************************************)
MaxArgs == 2

ArgWords == {"sudo", "apt", "update"}

Argvs == UNION { [1..n -> ArgWords] : n \in 1..MaxArgs }

Requests == [command : Argvs, use_sudo : BOOLEAN, raise_on_error : BOOLEAN]

InitExecutor ==
  /\ stage_file = AbsentFile /\ artifacts_dir_exists = TRUE /\ writable = TRUE
  /\ NoProcess
  /\ req \in Requests /\ ran = NoRun
  /\ procs = NoProcs /\ recorded = {}
  /\ NoSetup

RunCommand ==
  /\ ran = NoRun
  /\ \E returncode \in ReturnCodes :
       LET r == run_command(req.command, req.use_sudo, req.raise_on_error, returncode)
       IN  ran' = [returncode |-> returncode, spawns |-> r.spawns, raised |-> r.raised,
                   value |-> r.value]
  /\ UNCHANGED <<dbVars, fsVars, argVars, procVars, histVars, req, concVars>>

NextExecutor == RunCommand

SpecExecutor == InitExecutor /\ [][NextExecutor]_vars

(***************************************************************************)
(* Two invocations at once on one root, for different projects, with       *)
(* --sudo --migrate --collectstatic.  Each process has its own globals;    *)
(* stage.json is the one file both load and rewrite.  A step is one call   *)
(* of main by one process, the calls of the two processes interleaved in   *)
(* any order.                                                              *)
(***************************************************************************)
Procs == {1, 2}

ProjectOf(p) == IF p = 1 THEN "site" ELSE "blog"

InitConcurrent ==
  /\ stage_file = JsonFile(<<>>) /\ artifacts_dir_exists = TRUE /\ writable = TRUE
  /\ NoProcess
  /\ req = NoRequest /\ ran = NoRun
  /\ procs = [p \in Procs |->
               [PROJECT_NAME |-> ProjectOf(p), phase |-> "load", step |-> 0,
                previous_stages |-> EmptyDict, VENV_ACTIVE |-> FALSE,
                virtual_env |-> FALSE]]
  /\ recorded = {}
  /\ NoSetup

\* main, line 477, in process p.
ConcLoad(p) ==
  /\ procs # NoProcs /\ procs[p].phase = "load"
  /\ \E r \in load_artifacts(artifacts_dir_exists, writable, stage_file,
                              procs[p].previous_stages) :
       /\ stage_file' = r.file
       /\ procs' = [procs EXCEPT ![p].previous_stages = r.previous_stages,
                                 ![p].phase = IF r.res = "ok" THEN "run" ELSE "exited",
                                 ![p].step = IF r.res = "ok" THEN 1 ELSE 0]
  /\ UNCHANGED <<dbVars, artifacts_dir_exists, writable, argVars, procVars, histVars, execVars,
                 recorded>>

\* main, lines 481-512, in process p: the call at its position.
ConcStep(p) ==
  /\ procs # NoProcs /\ procs[p].phase = "run"
  /\ LET me == procs[p]
         i == me.step
     IN  IF ~Enabled(i)
         THEN /\ procs' = [procs EXCEPT ![p].step = Advance(i)]
              /\ UNCHANGED <<stage_file, recorded>>
         ELSE \E r \in Call(i, me.PROJECT_NAME, sudo, writable,
                            ProcState(me.previous_stages, stage_file, <<>>,
                                      me.VENV_ACTIVE, me.virtual_env)) :
                /\ stage_file' = r.file
                /\ recorded' = IF r.wrote
                               THEN recorded \cup {<<me.PROJECT_NAME, Pipeline[i].name>>}
                               ELSE recorded
                /\ procs' = [procs EXCEPT
                               ![p].previous_stages = r.previous_stages,
                               ![p].VENV_ACTIVE = r.venv_active,
                               ![p].virtual_env = r.virtual_env,
                               ![p].step = IF r.res = "ok" THEN Advance(i) ELSE i,
                               ![p].phase = IF r.res = "ok" /\ i < Len(Pipeline)
                                            THEN "run" ELSE "exited"]
  /\ UNCHANGED <<dbVars, artifacts_dir_exists, writable, argVars, procVars, histVars, execVars>>

NextConcurrent ==
  \/ \E p \in Procs : ConcLoad(p)
  \/ \E p \in Procs : ConcStep(p)

SpecConcurrent == InitConcurrent /\ [][NextConcurrent]_vars

(***************************************************************************)
(* The command run again and again for one project with the same options   *)
(* (--sudo --migrate --collectstatic) on a root with no stage.json yet.    *)
(* No process is killed.  Fairness: the command is run again after it      *)
(* ended; a running process makes its next call; and every call of main    *)
(* that is made again and again returns in the end (each body succeeds     *)
(* when retried).                                                          *)
(***************************************************************************)
LiveProject == "site"

InitLive ==
  /\ stage_file = AbsentFile
  /\ artifacts_dir_exists \in BOOLEAN
  /\ writable = TRUE
  /\ NoProcess
  /\ req = NoRequest /\ ran = NoRun
  /\ procs = NoProcs /\ recorded = {}
  /\ NoSetup

Again ==
  /\ UNCHANGED runs
  /\ \E v \in BOOLEAN : Invoke(LiveProject, sudo, migrate, collectstatic, v)

LoadLive == LoadArtifacts /\ exit' # "killed"

\* The call at position i returns (or main passes it over).
StepOk(i) == Step(i) /\ exit' \in {"none", "ok"}

\* The call at position i ends the process with exit(1) or an exception.
StepFail(i) == Step(i) /\ exit' \in {"exit1", "traceback"}

NextLive ==
  \/ Again
  \/ LoadLive
  \/ \E i \in Steps : StepOk(i)
  \/ \E i \in Steps : StepFail(i)

FairLive ==
  /\ WF_vars(Again)
  /\ WF_vars(LoadLive)
  /\ \A i \in Steps : WF_vars(StepOk(i) \/ StepFail(i))
  /\ \A i \in Steps : SF_vars(StepOk(i))

SpecLive == InitLive /\ [][NextLive]_vars /\ FairLive

(***************************************************************************)
(* setup_db.py, one invocation: an env file or none, an inherited          *)
(* environment, the options --execute-sql/--no-execute-sql and             *)
(* --migrate/--no-migrate, a root with or without .deployment_artifacts.   *)
(***************************************************************************)
InitSetupDb ==
  /\ stage_file = AbsentFile
  /\ artifacts_dir_exists \in BOOLEAN
  /\ writable = TRUE
  /\ NoProcess
  /\ req = NoRequest /\ ran = NoRun
  /\ procs = NoProcs /\ recorded = {}
  /\ env_file \in EnvFiles
  /\ environ \in InheritedEnvirons
  /\ \E e, m \in BOOLEAN :
       setup = [IdleSetup EXCEPT !.pc = "main", !.execute_sql = e, !.migrate = m]

deployVars == <<fsVars, argVars, procVars, histVars, execVars, concVars>>

\* main is left at the step named, with res: "ok" (it returned), "deploy",
\* "defect" or "exit".
SetupEnded(st, at, res) ==
  [st EXCEPT !.pc = "exited", !.failed = at, !.res = res, !.status = SetupExitStatus(res)]

\* main up to the try: without the env file it logs an error and returns;
\* else it reads the database parameters from os.environ.
SetupMain ==
  /\ setup.pc = "main"
  /\ setup' = IF env_file.kind = "absent"
              THEN SetupEnded(setup, "env_file", "ok")
              ELSE [setup EXCEPT !.pc = "load",
                                 !.db_name = EnvironGet(environ, <<"DB_NAME">>),
                                 !.db_user = EnvironGet(environ, <<"DB_USER">>),
                                 !.db_password = EnvironGet(environ, <<"DB_PASSWORD">>),
                                 !.db_host = EnvironGet(environ, <<"DB_HOST">>),
                                 !.db_port = EnvironGet(environ, <<"DB_PORT">>)]
  /\ UNCHANGED <<deployVars, env_file, environ>>

\* load_dotenv_from_file(env_file_path)
SetupLoadDotenv ==
  /\ setup.pc = "load"
  /\ \E r \in {load_dotenv_from_file(environ, env_file.lines)} :
       /\ environ' = r.environ
       /\ setup' = IF r.res = "ok" THEN [setup EXCEPT !.pc = "sql"]
                   ELSE SetupEnded(setup, "load_dotenv_from_file", r.res)
  /\ UNCHANGED <<deployVars, env_file>>

\* create_postgres_resources(artifacts_dir, db_name, ..., execute_sql)
SetupCreatePostgresResources ==
  /\ setup.pc = "sql"
  /\ \E returncode \in ReturnCodes :
       LET text == SqlText(setup.db_name, setup.db_user, setup.db_password)
           built == [setup EXCEPT !.line = text]
           r == setup_run_command(<<"sudo", "su", "postgres", "-c", "psql -f create_db.sql">>,
                                  FALSE, TRUE, returncode)
           res == setup_raise_for_deployment(r.res)
           ran_psql == [built EXCEPT !.shown = "file", !.spawned = @ \o r.spawns]
       IN  setup' =
             IF ~setup.execute_sql
             THEN [built EXCEPT !.shown = "stdout", !.pc = "migrate",
                                !.done = @ \cup {"create_postgres_resources"}]
             ELSE IF ~artifacts_dir_exists \/ ~writable
             THEN SetupEnded(built, "create_postgres_resources",
                             setup_raise_for_deployment("defect"))
             ELSE IF res = "ok"
             THEN [ran_psql EXCEPT !.pc = "migrate",
                                   !.done = @ \cup {"create_postgres_resources"}]
             ELSE SetupEnded(ran_psql, "create_postgres_resources", res)
  /\ UNCHANGED <<deployVars, env_file, environ>>

\* if migrate: the virtualenv check and migrate_db(project_dir)
SetupMigrate ==
  /\ setup.pc = "migrate"
  /\ \E returncode \in ReturnCodes :
       LET r == setup_run_command(<<"python", "manage.py", "migrate">>, FALSE, TRUE, returncode)
           checked == [setup EXCEPT !.done = @ \cup {"virtualenv"}]
           ran_migrate == [checked EXCEPT !.spawned = @ \o r.spawns]
       IN  setup' =
             IF ~setup.migrate THEN [setup EXCEPT !.pc = "restart"]
             ELSE IF <<"VIRTUAL_ENV">> \notin DOMAIN environ
             THEN SetupEnded(setup, "virtualenv", "deploy")
             ELSE IF r.res = "ok"
             THEN [ran_migrate EXCEPT !.pc = "restart", !.done = @ \cup {"migrate_db"}]
             ELSE SetupEnded(ran_migrate, "migrate_db", r.res)
  /\ UNCHANGED <<deployVars, env_file, environ>>

\* The three commands of restart_services.
ServiceCommands ==
  << <<"systemctl", "daemon-reload">>,
     <<"systemctl", "restart", "gunicorn">>,
     <<"systemctl", "restart", "nginx">> >>

\* restart_services(): the commands in order, up to the first that fails.
SetupRestartServices ==
  /\ setup.pc = "restart"
  /\ \E n \in 1..Len(ServiceCommands), returncode \in ReturnCodes :
       LET last == setup_run_command(ServiceCommands[n], TRUE, TRUE, returncode)
           argvs == [k \in 1..n |->
                      setup_run_command(ServiceCommands[k], TRUE, TRUE, 0).spawns[1]]
           ran_all == [setup EXCEPT !.spawned = @ \o argvs]
       IN  /\ returncode = 0 => n = Len(ServiceCommands)
           /\ setup' = IF last.res = "ok"
                       THEN SetupEnded([ran_all EXCEPT !.done = @ \cup {"restart_services"}],
                                       "none", "ok")
                       ELSE SetupEnded(ran_all, "restart_services", last.res)
  /\ UNCHANGED <<deployVars, env_file, environ>>

NextSetupDb ==
  \/ SetupMain
  \/ SetupLoadDotenv
  \/ SetupCreatePostgresResources
  \/ SetupMigrate
  \/ SetupRestartServices

SpecSetupDb == InitSetupDb /\ [][NextSetupDb]_vars

(***************************************************************************)
(* Vocabulary of the properties.                                           *)
(***************************************************************************)
NameOf(i) == Pipeline[i].name

\* The invocation has made the call at position i (whatever came of it).
Passed(i) ==
  \/ phase = "run" /\ step > i
  \/ phase = "exited" /\ (exit = "ok" \/ raised.step >= i)

\* The stage of step i was complete in the ledger this invocation loaded.
LoadedComplete(i) == IsComplete(loaded, PROJECT_NAME, NameOf(i))

\* The stage of step i is complete for project t in a fresh load of stage.json.
PersistedComplete(t, i) == IsComplete(Persisted(stage_file), t, NameOf(i))

\* A step leaves stage.json changed, or the ledger in memory neither as it
\* was nor empty (only such a step can add an entry to either).
LedgerTouched ==
  \/ stage_file' # stage_file
  \/ previous_stages' \notin {previous_stages, EmptyDict}

\* A step is a call of main that writes its stage to stage.json in full.
StageWritten == phase = "run" /\ step \in Steps /\ writes'[step] > writes[step]

\* The record of key t in a document, as a set of at most one record.
RecordOf(doc, t) == IF t \in DOMAIN doc THEN {doc[t]} ELSE {}

(***************************************************************************)
(* C1  Idempotent skip.  For every stage the loaded ledger marks complete  *)
(* for the invocation's project, throughout the invocation the body is     *)
(* never invoked, the stage is never written, the entry in memory is the   *)
(* loaded one, and so is the entry in every stage.json the invocation      *)
(* leaves readable.                                                        *)
(***************************************************************************)
C1_IdempotentSkip ==
  \A disk \in {Persisted(stage_file)}, i \in StagedSteps :
    LoadedComplete(i) =>
      /\ calls[i] = 0
      /\ writes[i] = 0
      /\ IsComplete(previous_stages, PROJECT_NAME, NameOf(i))
      /\ previous_stages[PROJECT_NAME][NameOf(i)] = loaded[PROJECT_NAME][NameOf(i)]
      /\ stage_file.kind = "json" =>
           /\ IsComplete(disk, PROJECT_NAME, NameOf(i))
           /\ disk[PROJECT_NAME][NameOf(i)] = loaded[PROJECT_NAME][NameOf(i)]

\* An invocation has skipped a stage it loaded as complete and has then run
\* and recorded a later one.
C1_Witness ==
  \E i, j \in StagedSteps :
    i < j /\ LoadedComplete(i) /\ Passed(i) /\ calls[i] = 0 /\ writes[j] = 1

(***************************************************************************)
(* C2  At-least-once on failure.  When the body of a stage fails (raises   *)
(* or dies) the ledger on disk does not hold the stage as complete for the *)
(* project once the invocation has ended; and the next invocation for the  *)
(* project, once it reaches the stage (the stage's toggle on), invokes the *)
(* body again.                                                             *)
(***************************************************************************)
C2_AtLeastOnce ==
  /\ (phase = "exited" /\ bodyFailed.step \in StagedSteps)
       => ~PersistedComplete(PROJECT_NAME, bodyFailed.step)
  /\ (failedBefore.step \in StagedSteps /\ Enabled(failedBefore.step)
        /\ Passed(failedBefore.step))
       => calls[failedBefore.step] = 1

\* The invocation after a failed one has invoked the failed body again.
C2_Witness ==
  /\ failedBefore.step \in StagedSteps
  /\ Passed(failedBefore.step)
  /\ calls[failedBefore.step] = 1

(***************************************************************************)
(* C3  Record after success.  A stage comes to be recorded complete for a  *)
(* project, in memory or on disk, only in the call of that stage made by   *)
(* an invocation for that project, and only when the body returned in that *)
(* call.                                                                   *)
(***************************************************************************)
Recorded(memory, disk, t, i) ==
  \/ IsComplete(memory, t, NameOf(i))
  \/ IsComplete(disk, t, NameOf(i))

C3_RecordAfterSuccess ==
  [][ LedgerTouched =>
        \A before \in {Persisted(stage_file)}, after \in {Persisted(stage_file')} :
          \A t \in Targets, i \in StagedSteps :
            (~Recorded(previous_stages, before, t, i)
               /\ Recorded(previous_stages', after, t, i)) =>
              /\ t = PROJECT_NAME /\ phase = "run" /\ step = i
              /\ calls'[i] = calls[i] + 1
              /\ returns'[i] = returns[i] + 1 ]_vars

\* A stage absent from the loaded ledger is on disk after its body returned.
C3_Witness ==
  \E i \in StagedSteps :
    /\ ~LoadedComplete(i)
    /\ returns[i] = 1
    /\ PersistedComplete(PROJECT_NAME, i)

(***************************************************************************)
(* C4  Fail-fast.  Once a body has raised a deployment failure             *)
(* (DeploymentException, or the exit(1) of activate_venv's own guard) the  *)
(* invocation has ended with a non-zero exit status at that call: the body *)
(* was invoked once, no later body was invoked and no later call spawned a *)
(* program.                                                                *)
(***************************************************************************)
C4_FailFast ==
  bodyFailed.res \in {"deploy", "exit"} =>
    /\ phase = "exited"
    /\ ExitCode(exit) # 0
    /\ step = bodyFailed.step
    /\ calls[bodyFailed.step] = 1
    /\ \A j \in Steps : j > bodyFailed.step => calls[j] = 0
    /\ lastSpawn <= bodyFailed.step

\* A body in the middle of the pipeline raised DeploymentException after
\* earlier stages had run.
C4_Witness ==
  /\ bodyFailed.res = "deploy"
  /\ bodyFailed.step > 1
  /\ bodyFailed.step < Len(Pipeline)
  /\ calls[1] = 1
  /\ phase = "exited"

(***************************************************************************)
(* C5  Ordering.  A body starts only at its own position of the pipeline,  *)
(* when no later body has started, and when every earlier stage whose      *)
(* toggle is on is complete for the project in stage.json as it is on disk *)
(* at that moment.                                                         *)
(***************************************************************************)
C5_Ordering ==
  [][ \A k \in Steps :
        calls'[k] > calls[k] =>
          /\ phase = "run" /\ step = k
          /\ \A j \in Steps : j > k => calls[j] = 0
          /\ \A disk \in {Persisted(stage_file)} :
               \A j \in StagedSteps :
                 (j < k /\ Enabled(j)) => IsComplete(disk, PROJECT_NAME, NameOf(j)) ]_vars

\* A body has started after one earlier stage was skipped as loaded and
\* another was written by this invocation.
C5_Witness ==
  \E a, b \in StagedSteps, c \in Steps :
    a < c /\ b < c /\ LoadedComplete(a) /\ writes[b] = 1 /\ calls[c] = 1

(***************************************************************************)
(* C6  Resume after failure.  (a) An invocation that loaded no complete    *)
(* stage of its project and whose body at position k failed ends with a    *)
(* non-zero exit status and leaves on disk the loaded document plus        *)
(* exactly the stages before k whose toggle was on, for its project.       *)
(* (b) When the invocation right after it, for the same project, runs to   *)
(* the end, it has invoked no body of an untoggled stage before k, has     *)
(* invoked the body of k and of every stage after it exactly once, has     *)
(* skipped exactly the stages it loaded as complete, and leaves every      *)
(* stage whose toggle is on complete on disk.                              *)
(***************************************************************************)
Fresh == ~\E n \in StageNames : IsComplete(loaded, PROJECT_NAME, n)

\* The stages a failure at position k leaves recorded by this invocation.
DoneBefore(k) == {NameOf(j) : j \in {x \in StagedSteps : x < k /\ Enabled(x)}}

C6_Resume ==
  /\ (phase = "exited" /\ bodyFailed.step > 0 /\ Fresh /\ loadedFrom \in {"json", "absent"})
       => /\ ExitCode(exit) # 0
          /\ \A disk \in {Persisted(stage_file)} :
               /\ \A key \in (DOMAIN disk \cup DOMAIN loaded) \ {PROJECT_NAME} :
                    RecordOf(disk, key) = RecordOf(loaded, key)
               /\ IF DoneBefore(bodyFailed.step) = {}
                  THEN RecordOf(disk, PROJECT_NAME) = RecordOf(loaded, PROJECT_NAME)
                  ELSE /\ PROJECT_NAME \in DOMAIN disk
                       /\ \A n \in StageNames :
                            IsComplete(disk, PROJECT_NAME, n) <=> n \in DoneBefore(bodyFailed.step)
                       /\ \A n \in DoneBefore(bodyFailed.step) : disk[PROJECT_NAME][n] = JsonTrue
  /\ (exit = "ok" /\ failedBefore.step > 0 /\ failedBefore.fresh)
       => \A j \in StagedSteps :
            /\ (j < failedBefore.step /\ Pipeline[j].gate = "none") => calls[j] = 0
            /\ (j >= failedBefore.step /\ Enabled(j)) => (calls[j] = 1 /\ returns[j] = 1)
            /\ calls[j] = 0 <=> (LoadedComplete(j) \/ ~Enabled(j))
            /\ calls[j] <= 1
            /\ Enabled(j) => PersistedComplete(PROJECT_NAME, j)

\* Pipeline [A, B, C, ...] with B = install_apt_packages: B failed in the
\* invocation before; this one skipped A, ran B and the rest, and ended well.
C6_Witness ==
  /\ exit = "ok"
  /\ failedBefore.step = 2 /\ failedBefore.fresh
  /\ calls[1] = 0 /\ calls[2] = 1 /\ calls[3] = 1
  /\ PersistedComplete(PROJECT_NAME, 1)
  /\ PersistedComplete(PROJECT_NAME, 2)
  /\ PersistedComplete(PROJECT_NAME, 3)

(***************************************************************************)
(* C7  Ledger round-trip.  Whenever a stage is written over a loadable     *)
(* stage.json, a fresh load of the new file gives the document a fresh     *)
(* load of the old file gave, with exactly that stage of that project set  *)
(* to true: the same project keys plus the project, every other project's  *)
(* record equal, the same stage keys plus the stage, every other entry     *)
(* equal.                                                                  *)
(***************************************************************************)
ExactlyOneSet(d, e, project, stage_name) ==
  /\ DOMAIN e = DOMAIN d \cup {project}
  /\ \A k \in DOMAIN d \ {project} : e[k] = d[k]
  /\ DOMAIN e[project] =
       (IF project \in DOMAIN d THEN DOMAIN d[project] ELSE {}) \cup {stage_name}
  /\ e[project][stage_name] = JsonTrue
  /\ \A x \in DOMAIN e[project] \ {stage_name} : e[project][x] = d[project][x]

C7_RoundTrip ==
  [][ (StageWritten /\ stage_file.kind = "json") =>
        /\ stage_file'.kind = "json"
        /\ \A d \in {Persisted(stage_file)}, e \in {Persisted(stage_file')} :
             ExactlyOneSet(d, e, PROJECT_NAME, NameOf(step)) ]_vars

\* A stage was written over a hand-edited file, and the unknown project key,
\* the unknown stage key and the false entry are still in it.
C7_Witness ==
  /\ loadedFrom = "json"
  /\ \E i \in StagedSteps : writes[i] = 1
  /\ \A d \in {Persisted(stage_file)} :
       /\ ExtraProjectKey \in DOMAIN d
       /\ PROJECT_NAME \in DOMAIN d
       /\ ExtraStageKey \in DOMAIN d[PROJECT_NAME]

(***************************************************************************)
(* C8  Partition isolation.  Writing a stage for the invocation's project  *)
(* leaves every other project's record as it was, on disk and in memory,   *)
(* and makes no stage complete for another project; and an invocation      *)
(* invokes the body of every stage it reaches that its own project's       *)
(* loaded record does not hold, whatever other projects' records hold.     *)
(***************************************************************************)
C8_PartitionIsolation ==
  [][ /\ StageWritten =>
           \A d \in {Persisted(stage_file)}, e \in {Persisted(stage_file')} :
             \A t \in (DOMAIN d \cup DOMAIN e \cup Targets) \ {PROJECT_NAME} :
               /\ stage_file.kind = "json" => RecordOf(e, t) = RecordOf(d, t)
               /\ RecordOf(previous_stages', t) = RecordOf(previous_stages, t)
               /\ \A n \in StageNames : IsComplete(e, t, n) => IsComplete(loaded, t, n)
      /\ \A i \in StagedSteps :
           (Passed(i)' /\ Enabled(i)' /\ ~LoadedComplete(i)') => calls'[i] = 1 ]_vars

\* An invocation for one project has invoked and recorded a stage that the
\* other project's record already held, and that record is as it was loaded.
C8_Witness ==
  \E t \in Targets, i \in StagedSteps :
    /\ t # PROJECT_NAME
    /\ IsComplete(loaded, t, NameOf(i))
    /\ ~LoadedComplete(i)
    /\ calls[i] = 1 /\ writes[i] = 1
    /\ RecordOf(Persisted(stage_file), t) = RecordOf(loaded, t)

(***************************************************************************)
(* C9  Load on a fresh root.  When an invocation begins with no stage.json *)
(* under its root, load_artifacts raises only if the user may not write    *)
(* there; and when it returns, the ledger in memory is empty and           *)
(* stage.json holds {} before the first stage is called.                   *)
(***************************************************************************)
C9_FreshRootLoad ==
  loadedFrom = "absent" =>
    /\ raised = [step |-> 0, res |-> "defect"] => ~writable
    /\ (phase = "run" \/ raised.step > 0 \/ exit = "ok") => loaded = EmptyDict
    /\ (phase = "run" /\ step = 1) => stage_file = JsonFile(<<>>)

\* A root the user may write to, without a .deployment_artifacts directory:
\* stage_file.touch() raised and the invocation ended before the first stage.
C9_Witness ==
  /\ loadedFrom = "absent"
  /\ writable /\ ~artifacts_dir_exists
  /\ phase = "exited" /\ ExitCode(exit) # 0
  /\ raised = [step |-> 0, res |-> "defect"]
  /\ stage_file = AbsentFile
  /\ calls = NoCalls

(***************************************************************************)
(* C10  A malformed stage.json is not masked.  An invocation that began    *)
(* with a stage.json json.load cannot parse has ended at load_artifacts    *)
(* with an uncaught exception: no body was invoked, no stage was written,  *)
(* and the file is as it was.                                              *)
(***************************************************************************)
C10_MalformedAborts ==
  loadedFrom = "garbage" =>
    /\ phase = "exited"
    /\ raised = [step |-> 0, res |-> "defect"]
    /\ calls = NoCalls
    /\ writes = NoCalls
    /\ stage_file = GarbageFile

\* The invocation went on from a malformed stage.json with an empty ledger,
\* invoked the first body and wrote a new stage.json over the file.
C10_Witness ==
  /\ loadedFrom = "garbage"
  /\ loaded = EmptyDict
  /\ calls[1] = 1 /\ writes[1] = 1
  /\ stage_file.kind = "json"

(***************************************************************************)
(* C11  Unexpected failures are not masked.  When the body of a step       *)
(* raises an exception other than DeploymentException, the invocation has  *)
(* ended at that call with the uncaught exception (not with exit(1)), the  *)
(* stage was not written and is complete neither in memory nor on disk,    *)
(* and no later body was invoked and no later call spawned a program.      *)
(***************************************************************************)
C11_DefectsPropagate ==
  bodyFailed.res = "defect" =>
    /\ phase = "exited"
    /\ step = bodyFailed.step
    /\ raised = [step |-> bodyFailed.step, res |-> "defect"]
    /\ exit = "traceback"
    /\ writes[bodyFailed.step] = 0
    /\ bodyFailed.step \in StagedSteps =>
         /\ ~IsComplete(previous_stages, PROJECT_NAME, NameOf(bodyFailed.step))
         /\ ~PersistedComplete(PROJECT_NAME, bodyFailed.step)
    /\ \A j \in Steps : j > bodyFailed.step => calls[j] = 0
    /\ lastSpawn <= bodyFailed.step

\* mkdir raised in create_project_dir, a stage under both wrappers, after
\* the stages before it had run.
C11_Witness ==
  /\ bodyFailed = [step |-> 4, res |-> "defect"]
  /\ Pipeline[4].staged /\ Pipeline[4].guarded
  /\ calls[3] = 1
  /\ phase = "exited"

\* The call of run_command has been made.
HasRun == ran # NoRun

(***************************************************************************)
(* C12  Elevation dispatch.  A call of run_command hands subprocess.run    *)
(* one argv: "sudo" followed by the command, word for word, when use_sudo  *)
(* is true, and the command itself when it is false.                       *)
(***************************************************************************)
C12_ElevationDispatch ==
  HasRun =>
    /\ Len(ran.spawns) = 1
    /\ IF req.use_sudo
       THEN /\ Len(ran.spawns[1]) = Len(req.command) + 1
            /\ Head(ran.spawns[1]) = "sudo"
            /\ Tail(ran.spawns[1]) = req.command
       ELSE ran.spawns[1] = req.command

\* run_command(["apt", "update"], use_sudo=True) spawned ["sudo", "apt", "update"].
C12_Witness ==
  /\ HasRun
  /\ req.use_sudo /\ req.command = <<"apt", "update">>
  /\ ran.spawns = << <<"sudo", "apt", "update">> >>

(***************************************************************************)
(* C13  Command failure policy.  A call of run_command spawns the program  *)
(* once; a non-zero exit status raises DeploymentException when            *)
(* raise_on_error is true; when it is false nothing is raised and the call *)
(* returns the status; exit status 0 never raises.                         *)
(***************************************************************************)
C13_FailurePolicy ==
  HasRun =>
    /\ Len(ran.spawns) = 1
    /\ (ran.returncode # 0 /\ req.raise_on_error) => ran.raised
    /\ (ran.returncode # 0 /\ ~req.raise_on_error) =>
         (~ran.raised /\ ran.value = <<ran.returncode>>)
    /\ ran.returncode = 0 => ~ran.raised

\* A program ended with status 1 under raise_on_error=False: nothing was
\* raised and the call returned None.
C13_Witness ==
  /\ HasRun
  /\ ran.returncode = 1 /\ ~req.raise_on_error
  /\ ~ran.raised
  /\ ran.value = PyNone

\* The times a call's spawned programs include the sourcing of the activate
\* script (shell_source).
Sourcings(l) == Cardinality({k \in 1..Len(l) : l[k] = Activate.argv})

\* A step is a call of main that invokes its body.
BodyInvoked == phase = "run" /\ step \in Steps /\ calls'[step] > calls[step]

(***************************************************************************)
(* C14  The environment is imported at most once per process.  A call made *)
(* with VENV_ACTIVE set sources no script, leaves VIRTUAL_ENV as it is and *)
(* leaves the flag set; no call sources the script twice; and the flag is  *)
(* set only with VIRTUAL_ENV in the environment: a call whose sourcing     *)
(* leaves VIRTUAL_ENV missing ends the process with the flag unset.        *)
(***************************************************************************)
C14_ImportOnce ==
  [][ BodyInvoked =>
        /\ Sourcings(log') <= 1
        /\ VENV_ACTIVE =>
             /\ Sourcings(log') = 0
             /\ virtual_env' = virtual_env
             /\ VENV_ACTIVE'
        /\ (Sourcings(log') = 1 /\ ~virtual_env') =>
             (~VENV_ACTIVE' /\ phase' = "exited" /\ ExitCode(exit') # 0)
        /\ VENV_ACTIVE' => virtual_env' ]_vars

\* install_create_activate_virtualenv activated the environment and
\* install_project_dependencies, which calls activate_venv first, then ran
\* its body without sourcing anything.
C14_Witness ==
  /\ phase = "run" /\ step = 9
  /\ calls[7] = 1 /\ calls[8] = 1
  /\ VENV_ACTIVE
  /\ log # <<>>
  /\ Sourcings(log) = 0

\* The ledger the invocation loaded holds every stage that update_stage
\* records as complete for its project.
AllRecorded == \A i \in StagedSteps : LoadedComplete(i)

(***************************************************************************)
(* C15  Every step goes through the stage wrapper.  Every step of main     *)
(* whose body returned is recorded complete for the project; and an        *)
(* invocation that loaded a ledger with all stages recorded invokes no     *)
(* body and spawns no program.                                             *)
(***************************************************************************)
C15_AllThroughRunner ==
  /\ \A k \in Steps :
       returns[k] > 0 => IsComplete(previous_stages, PROJECT_NAME, NameOf(k))
  /\ AllRecorded => (calls = NoCalls /\ lastSpawn = 0)

\* An invocation that loaded every stage as recorded ran to the end and
\* invoked the three bodies main calls outside update_stage.
C15_Witness ==
  /\ AllRecorded
  /\ exit = "ok"
  /\ calls[6] = 1 /\ calls[12] = 1 /\ calls[15] = 1
  /\ \A i \in StagedSteps : calls[i] = 0
  /\ lastSpawn = 15

(***************************************************************************)
(* C16  Deployment failures are caught at the wrapper.  When the body of a *)
(* stage raises DeploymentException the invocation ends by the exit(1) of  *)
(* raise_for_deployment, never by an uncaught exception.                   *)
(***************************************************************************)
C16_CaughtAtRunner ==
  (bodyFailed.res = "deploy" /\ bodyFailed.step \in StagedSteps) =>
    (phase = "exited" /\ exit = "exit1" /\ raised.res = "exit")

\* manage.py migrate ended with a non-zero status: the DeploymentException
\* of migrate_db left main uncaught.
C16_Witness ==
  /\ bodyFailed = [step |-> 9, res |-> "deploy"]
  /\ NameOf(9) = "migrate_db"
  /\ phase = "exited"
  /\ exit = "traceback"
  /\ raised = [step |-> 9, res |-> "deploy"]

\* The number of "sudo" words an argv starts with.
RECURSIVE LeadingSudos(_)
LeadingSudos(argv) ==
  IF argv # <<>> /\ Head(argv) = "sudo" THEN 1 + LeadingSudos(Tail(argv)) ELSE 0

(***************************************************************************)
(* C17  Bodies never write the sudo prefix themselves.  No body that has   *)
(* been invoked hands run_command a command starting with "sudo"; every    *)
(* program a call spawned starts with at most one "sudo", and with none    *)
(* when the invocation was started with --no-sudo.                         *)
(***************************************************************************)
C17_NoBodySudo ==
  /\ \A i \in Steps :
       calls[i] > 0 =>
         \A script \in BodyScripts(i, sudo) :
           \A k \in 1..Len(script) :
             script[k].op = "run_command" => Head(script[k].argv) # "sudo"
  /\ \A k \in 1..Len(log) :
       /\ LeadingSudos(log[k]) <= 1
       /\ ~sudo => LeadingSudos(log[k]) = 0

\* With --sudo, update_system spawned sudo sudo apt update -y.
C17_Witness ==
  /\ sudo
  /\ calls[1] = 1 /\ lastSpawn = 1
  /\ log = << <<"sudo", "sudo", "apt", "update", "-y">> >>

(***************************************************************************)
(* C18  Single pass.  A step of a running invocation touches the call      *)
(* count and the write count of its own position only, and neither ever    *)
(* exceeds one; when the invocation goes on it is at the next position     *)
(* with nothing failed; and it ends either with status ok at the last      *)
(* position or with the failure of the call it was at.                     *)
(***************************************************************************)
C18_SinglePass ==
  [][ phase = "run" =>
        /\ \A i \in Steps :
             /\ calls'[i] <= 1 /\ writes'[i] <= 1
             /\ i # step => (calls'[i] = calls[i] /\ writes'[i] = writes[i])
        /\ phase' \in {"run", "exited"}
        /\ phase' = "run" =>
             (step' = step + 1 /\ raised' = NotRaised /\ bodyFailed' = NotRaised)
        /\ phase' = "exited" =>
             \/ exit' = "ok" /\ step = Len(Pipeline) /\ raised' = NotRaised
             \/ exit' # "ok" /\ step' = step /\ raised'.step = step /\ raised'.res # "none" ]_vars

\* An invocation ran every step once, from the first to the last.
C18_Witness ==
  /\ exit = "ok"
  /\ \A i \in Steps : calls[i] = 1
  /\ \A i \in StagedSteps : writes[i] = 1

\* The stages main calls under a command-line toggle.
GatedSteps == {i \in StagedSteps : Pipeline[i].gate # "none"}

\* The command line turned the toggle of gated step g off (--no-migrate,
\* --no-collectstatic).
ToggleOff(g) ==
  \/ Pipeline[g].gate = "migrate" /\ ~migrate
  \/ Pipeline[g].gate = "collectstatic" /\ ~collectstatic

(***************************************************************************)
(* C19  Run-time gates.  In an invocation with a stage's toggle off the    *)
(* body of that stage is never invoked, the stage is never written, and it *)
(* is complete in memory and on disk exactly if it was loaded so.  Every   *)
(* other stage the invocation has passed was invoked exactly if the loaded *)
(* ledger did not hold it, whatever the toggles, and is complete in memory *)
(* once its body returned.  An invocation with the toggle on that reaches  *)
(* the gated stage without a loaded record of it invokes its body.         *)
(***************************************************************************)
C19_Gates ==
  /\ \A g \in GatedSteps :
       /\ ToggleOff(g) =>
            /\ calls[g] = 0 /\ writes[g] = 0
            /\ IsComplete(previous_stages, PROJECT_NAME, NameOf(g))
                 <=> IsComplete(loaded, PROJECT_NAME, NameOf(g))
            /\ (phase \in {"run", "exited"} /\ stage_file.kind = "json") =>
                 (PersistedComplete(PROJECT_NAME, g) <=> LoadedComplete(g))
       /\ (~ToggleOff(g) /\ Passed(g) /\ ~LoadedComplete(g)) => calls[g] = 1
  /\ \A j \in StagedSteps \ GatedSteps :
       /\ Passed(j) => calls[j] = (IF LoadedComplete(j) THEN 0 ELSE 1)
       /\ returns[j] = 1 => IsComplete(previous_stages, PROJECT_NAME, NameOf(j))

\* A second invocation, with --migrate, invoked migrate_db: the ledger it
\* loaded holds the stages around migrate_db, which an invocation with
\* --no-migrate wrote when it went past the stage.
C19_Witness ==
  /\ runs = 2
  /\ migrate
  /\ LoadedComplete(8) /\ LoadedComplete(11) /\ ~LoadedComplete(9)
  /\ NameOf(9) = "migrate_db"
  /\ calls[9] = 1 /\ returns[9] = 1
  /\ \A j \in StagedSteps \ GatedSteps : calls[j] = 0

(***************************************************************************)
(* C20  Visibility across processes.  With two invocations for different   *)
(* projects running at once on one stage.json, every stage a completed     *)
(* write recorded is complete for its project in a fresh load of the file  *)
(* from then on, whatever the other process writes.                        *)
(***************************************************************************)
C20_NoLostRecord ==
  stage_file.kind = "json" =>
    \A disk \in {Persisted(stage_file)} :
      \A pair \in recorded : IsComplete(disk, pair[1], pair[2])

\* Both processes loaded the empty ledger; the site process recorded
\* update_system, then the blog process recorded its own and wrote the file
\* from its own copy: the site record is gone.
C20_Witness ==
  /\ recorded = {<<"site", "update_system">>, <<"blog", "update_system">>}
  /\ stage_file = JsonFile(DumpJson([blog |-> [update_system |-> JsonTrue]]))

(***************************************************************************)
(* C21  Ledger monotonicity.  Whatever a step does to stage.json (a write  *)
(* of a stage, a write cut short by a kill, the {} load_artifacts puts in  *)
(* a missing file), every stage a fresh load of the file gave as complete  *)
(* for a project before the step is complete for it in a fresh load after  *)
(* the step.                                                               *)
(***************************************************************************)
C21_Monotone ==
  [][ stage_file' # stage_file =>
        \A before \in {Persisted(stage_file)}, after \in {Persisted(stage_file')} :
          \A t \in DOMAIN before :
            \A n \in DOMAIN before[t] :
              IsComplete(before, t, n) => IsComplete(after, t, n) ]_vars

\* The invocation wrote update_system, then was killed while it rewrote
\* stage.json for install_apt_packages: the file is cut short and a fresh
\* load gives no stage at all.
C21_Witness ==
  /\ phase = "exited" /\ exit = "killed"
  /\ raised = [step |-> 2, res |-> "killed"]
  /\ writes[1] = 1 /\ returns[2] = 1 /\ writes[2] = 0
  /\ stage_file = GarbageFile
  /\ ~PersistedComplete(PROJECT_NAME, 1)

\* Every stage whose toggle is on is complete for the project in a fresh
\* load of stage.json.
LedgerComplete ==
  \A i \in StagedSteps : Enabled(i) => PersistedComplete(LiveProject, i)

(***************************************************************************)
(* C22  Eventual completion.  When the command is run again and again for  *)
(* a project, every program it spawns ends and every body succeeds when    *)
(* retried, stage.json comes to hold every stage whose toggle is on as     *)
(* complete for the project.                                               *)
(***************************************************************************)
C22_EventualCompletion == <>LedgerComplete

\* On a root without a .deployment_artifacts directory the command was run
\* again after load_artifacts had raised, and load_artifacts raised again:
\* no stage.json, no call of main made.
C22_Witness ==
  /\ ~artifacts_dir_exists /\ writable
  /\ failedBefore = NoFailure
  /\ phase = "exited" /\ raised = [step |-> 0, res |-> "defect"]
  /\ loadedFrom = "absent" /\ stage_file = AbsentFile
  /\ calls = NoCalls
  /\ ~LedgerComplete

\* What the env file defines: the environment its lines make of an empty one.
FileEnviron == load_dotenv_from_file(NoEnviron, env_file.lines).environ

\* The parameter the SQL is to be built from: the file's value of the key
\* when the file defines it, else the one main read.
FromFile(key, read) ==
  IF key \in DOMAIN FileEnviron THEN <<FileEnviron[key]>> ELSE read

\* create_postgres_resources has built the SQL.
SqlBuilt == setup.shown # "none"

(***************************************************************************)
(* C23  The SQL is built from the env file.  The database name, user and   *)
(* password in the SQL that setup_db generates are the values the env file *)
(* defines for DB_NAME, DB_USER and DB_PASSWORD, whenever it defines them. *)
(***************************************************************************)
C23_SqlFromEnvFile ==
  SqlBuilt =>
    setup.line = SqlText(FromFile(<<"DB_NAME">>, setup.db_name),
                         FromFile(<<"DB_USER">>, setup.db_user),
                         FromFile(<<"DB_PASSWORD">>, setup.db_password))

\* The file's only line is DB_NAME=shop, DB_NAME was not exported before:
\* the environment now holds shop and the SQL creates the database None.
C23_Witness ==
  /\ env_file = [kind |-> "file", lines |-> << <<"DB_NAME", "=", "shop">> >>]
  /\ SqlBuilt
  /\ environ[<<"DB_NAME">>] = <<"shop">>
  /\ setup.db_name = PyNone
  /\ setup.line[1] = <<"CREATE DATABASE ", <<"None">>, ";">>

\* The steps of main's try that the options turn on.
EnabledSetupSteps ==
  {"create_postgres_resources", "restart_services"}
    \cup (IF setup.migrate THEN {"virtualenv", "migrate_db"} ELSE {})

\* main was left at one of its steps by an exception.
SetupStepFailed ==
  setup.res # "ok" /\ \E i \in 1..Len(SetupSteps) : SetupSteps[i] = setup.failed

(***************************************************************************)
(* C24  A failure is an exit status.  When setup_db, started with its env  *)
(* file in place, has ended: a step that failed (the SQL, the virtualenv   *)
(* check, the migration, the restart of the services) left every later     *)
(* step undone and the exit status is not 0; and the exit status is 0 only *)
(* with every enabled step done.                                           *)
(***************************************************************************)
C24_FailureExitsNonZero ==
  (setup.pc = "exited" /\ env_file.kind = "file") =>
    /\ SetupStepFailed =>
         /\ setup.status # 0
         /\ \A i, j \in 1..Len(SetupSteps) :
              (SetupSteps[i] = setup.failed /\ i <= j) => SetupSteps[j] \notin setup.done
    /\ setup.status = 0 => EnabledSetupSteps \subseteq setup.done

\* The SQL ran, manage.py migrate ended with a non-zero status: the
\* services were not restarted and the command exits 0.
C24_Witness ==
  /\ setup.pc = "exited" /\ setup.failed = "migrate_db" /\ setup.res = "deploy"
  /\ setup.spawned = << <<"sudo", "su", "postgres", "-c", "psql -f create_db.sql">>,
                        <<"python", "manage.py", "migrate">> >>
  /\ setup.done = {"create_postgres_resources", "virtualenv"}
  /\ setup.status = 0

====
